---- MODULE Spec2Model ----
(***************************************************************************)
(* Model of the catalog synchronisation engine of sd-models-manager:       *)
(* the reload_from_disk pass (bulk reset, per-root find_or_create, walk    *)
(* and item upsert), the clean sweep, the delete and empty_trash handlers, *)
(* the tag functions, update_model_info and calculate_autov2_hash, at the  *)
(* granularity of one SQL statement or one filesystem call per step.       *)
(*                                                                         *)
(* The display name column of item is write-only for every operation       *)
(* modelled here and is left out of the rows.                              *)
(***************************************************************************)
EXTENDS Integers, Sequences, FiniteSets, TLC

\* ------------------------------------------------------------------ bounds
MaxId == 6          \* largest row id the store hands out
MaxPasses == 2      \* reload_from_disk requests accepted in a behaviour
MaxFailures == 1    \* store statements that return an error
MaxFsOps == 1       \* changes the environment makes to the disk
MaxCleans == 1      \* clean requests accepted in a behaviour
MaxDeletes == 1     \* delete requests accepted in a behaviour
MaxDelIds == 2      \* ids one delete request carries
MaxEmpties == 1     \* empty_trash requests accepted in a behaviour
MaxTagOps == 2      \* calls of tag functions in a behaviour
MaxTagSeq == 2      \* tags one add_tag_item call carries
MaxSyncs == 1       \* runs of update_model_info in a behaviour
MaxHashes == 2      \* calls of calculate_autov2_hash in a behaviour
MaxLen == 3         \* bytes the hashed file holds
MaxRead == 2        \* bytes one read returns at most (the buffer holds 8192)

\* --------------------------------------------------------- configuration
NULL == -1                         \* SQL NULL of an integer column
NoHash == "null"                   \* SQL NULL of the content identity column
Tasks == {1, 2}                    \* concurrently spawned reload tasks
RootOrder == <<"A", "B">>          \* config.model_paths, in iteration order
Labels == {RootOrder[i] : i \in 1..Len(RootOrder)}
Extensions == {"safetensors"}      \* config.extensions
PREVIEW_EXT == "jpeg"              \* extension of the preview asset
TokenLen == 10                     \* hex digits of the content identity
DefaultChecked == TRUE             \* column default of is_checked

\* ------------------------------------------------------------- paths
\* One path segment: file stem, extension and the leading-dot marker.
Seg(h, s, e) == [hidden |-> h, stem |-> s, ext |-> e]
DirD == Seg(FALSE, "d", "")
FileM == Seg(FALSE, "m", "safetensors")
FileN == Seg(FALSE, "n", "txt")
HiddenH == Seg(TRUE, "h", "safetensors")
TRASH_DIR == Seg(TRUE, "trash", "")

\* data: the bytes of a file, empty for a directory.
File(l, p, d) == [label |-> l, path |-> p, kind |-> "file", data |-> d]
Entry(l, p, k) == [label |-> l, path |-> p, kind |-> k, data |-> ""]

\* Everything the environment may put on disk.
FsUniverse ==
    { Entry("A", <<>>, "dir"),
      Entry("A", <<DirD>>, "dir"),
      Entry("A", <<DirD, FileM>>, "file"),
      Entry("A", <<FileN>>, "file"),
      Entry("A", <<HiddenH>>, "file"),
      Entry("B", <<>>, "dir"),
      Entry("B", <<FileM>>, "file") }

\* Disks the program is started on: every root populated, or every root an
\* empty directory.
StartDisks == {FsUniverse, {e \in FsUniverse : e.path = <<>>}}

\* Path::parent: None for the empty path, else the path without its last
\* segment.
HasParent(p) == Len(p) > 0
Parent(p) == SubSeq(p, 1, Len(p) - 1)

IsPrefix(p, q) == Len(p) <= Len(q) /\ SubSeq(q, 1, Len(p)) = p

\* Path::extension of the last segment.
ExtensionOf(p) == IF Len(p) = 0 THEN "" ELSE p[Len(p)].ext

\* PathBuf::set_extension on the last segment.
SetExtension(p, x) ==
    IF Len(p) = 0 THEN p ELSE [p EXCEPT ![Len(p)].ext = x]

\* Variant: only the name of the entry itself is looked at, so that what a
\* hidden directory holds is still yielded.
IsHiddenName(p) == Len(p) > 0 /\ p[Len(p)].hidden

\* jwalk skip_hidden: an entry below the root is hidden when one of its
\* segments starts with a dot (the subtree of a hidden directory is not
\* descended).
IsHidden(p) == \E i \in 1..Len(p) : p[i].hidden

OnDisk(f, l, p) == \E e \in f : e.label = l /\ e.path = p

KindOf(f, l, p) == (CHOOSE e \in f : e.label = l /\ e.path = p).kind

\* fs::rename inside one root: the entry src, with all it holds when it is
\* a directory, becomes dst.  The call fails and changes nothing when src
\* does not exist, when the directory of dst does not exist, when dst lies
\* inside src, when a file would replace a directory or a directory a
\* file, or when dst is a directory that is not empty.
RenameOk(f, l, src, dst) ==
    /\ OnDisk(f, l, src)
    /\ Len(dst) > 0
    /\ OnDisk(f, l, SubSeq(dst, 1, Len(dst) - 1))
    /\ KindOf(f, l, SubSeq(dst, 1, Len(dst) - 1)) = "dir"
    /\ ~IsPrefix(src, dst)
    /\ OnDisk(f, l, dst) =>
          /\ KindOf(f, l, dst) = KindOf(f, l, src)
          /\ ~\E o \in f : o.label = l /\ o.path # dst /\ IsPrefix(dst, o.path)

Rename(f, l, src, dst) ==
    IF ~RenameOk(f, l, src, dst) THEN f
    ELSE LET moved == {o \in f : o.label = l /\ IsPrefix(src, o.path)}
             kept == {o \in f \ moved : ~(o.label = l /\ o.path = dst)} IN
         kept \cup {[o EXCEPT !.path = dst \o SubSeq(o.path, Len(src) + 1,
                                                     Len(o.path))] : o \in moved}

\* A disk is well formed when every entry lies in an existing directory.
FsClosed(f) ==
    \A e \in f : HasParent(e.path) =>
        Entry(e.label, Parent(e.path), "dir") \in f

\* Entries WalkDir yields for one root: the root directory and all that is
\* reachable below it without passing a hidden name.
WalkEntries(f, l) ==
    { e \in f : e.label = l /\ ~IsHidden(e.path) /\ OnDisk(f, l, <<>>) }

\* need_update of reload_from_disk: directories always, files only with an
\* accepted extension.
NeedUpdate(e) ==
    IF e.kind = "file" THEN ExtensionOf(e.path) \in Extensions ELSE TRUE

\* ------------------------------------------------------------- state
VARIABLES
    fs,        \* entries present on disk
    item,      \* rows of table item
    base,      \* rows of table base
    task,      \* the spawned reload tasks: position and locals
    cleaner,   \* position of the clean handler
    deleter,   \* position and locals of the delete handler
    budget,    \* requests, failures and disk changes used so far
    log,       \* history: what the current or last pass of each task did
    trail,     \* history: the last completed, undisturbed operations
    emptier,   \* position and locals of the empty_trash handler
    tag,       \* rows of table tag
    tag_item,  \* rows of table tag_item
    tagger,    \* position and locals of the running tag function
    sync,      \* position and locals of update_model_info
    hasher     \* position and locals of calculate_autov2_hash

vars == <<fs, item, base, task, cleaner, deleter, budget, log, trail, emptier,
          tag, tag_item, tagger, sync, hasher>>

ItemRow(i, p, b, par, c) ==
    [id |-> i, path |-> p, base_id |-> b, parent |-> par,
     is_checked |-> c, hash |-> NoHash]
BaseRow(i, l, c) == [id |-> i, label |-> l, is_checked |-> c]

\* hit (history): the rows the UPDATE of mark_obsolete matched.  disk
\* (history): the disk when mark_obsolete returned.  marked (history): the
\* ids of the rows that the UPDATE of mark_obsolete has matched so far.
IdleDeleter ==
    [pc |-> "idle", ids |-> <<>>, label |-> "", rel |-> <<>>, files |-> <<>>,
     hit |-> {}, disk |-> {}, marked |-> {}]

\* n: requests accepted so far.  tried, failed (history): the roots for
\* which the current or last request called remove_dir_all, and those for
\* which the call returned an error.
IdleEmptier ==
    [pc |-> "idle", roots |-> <<>>, n |-> 0, tried |-> {}, failed |-> {}]

\* op, name, new, item, all: the call and its arguments.  tags: the tags
\* add_tag_item has still to add.  n: calls so far.  res: none, ok or err.
\* failed (history): a statement of the call returned a store error.
\* before (history): the rows of both tables when the call began.  prev
\* (history): the call before this one and its result.
NoCall == [op |-> "none", name |-> "", new |-> "", item |-> 0, all |-> <<>>]
IdleTagger ==
    [pc |-> "idle", call |-> NoCall, tags |-> <<>>, tag_id |-> 0, n |-> 0,
     res |-> "none", failed |-> FALSE,
     before |-> [tag |-> {}, tag_item |-> {}],
     prev |-> [call |-> NoCall, res |-> "none"]]

\* roots, todo: the roots and the files of the current root still to do.
\* cur, image: the file at hand and whether its response names an image.
\* n: runs so far.  overwrite: overwrite_thumbnail of the run.  before:
\* the disk when download_info was entered.  disk (history): the disk when
\* the run began.  seen, failed (history): the files get_model_info was
\* called for, and those it returned Err for.  aborted (history): the run
\* returned the error of a download_info.  last (history): the last
\* download_info that returned.
NoDownload ==
    [entry |-> Entry("", <<>>, "none"), overwrite |-> FALSE, image |-> FALSE,
     downloaded |-> FALSE, res |-> "none", before |-> {}, after |-> {}]
IdleSync ==
    [pc |-> "idle", roots |-> <<>>, todo |-> {},
     cur |-> Entry("", <<>>, "none"), image |-> FALSE, n |-> 0,
     overwrite |-> FALSE, before |-> {}, disk |-> {}, seen |-> {},
     failed |-> {}, aborted |-> FALSE, last |-> NoDownload]

\* data, readable: the bytes of the file and whether it can be opened.
\* pos: bytes read so far.  fed: bytes the hasher has taken.  res, token:
\* none, ok or err, and the token returned.  n: calls so far.  reads
\* (history): the sizes of the reads of the call.  tokens, chunks (history):
\* the tokens returned so far and the reads that led to them.
IdleHasher ==
    [pc |-> "idle", data |-> <<>>, readable |-> TRUE, pos |-> 0,
     fed |-> <<>>, res |-> "none", token |-> <<>>, n |-> 0, reads |-> <<>>,
     tokens |-> {}, chunks |-> {}]

IdleTask ==
    [pc |-> "idle", roots |-> <<>>, base_id |-> 0, todo |-> {},
     cur |-> <<>>, parent_id |-> 0, cur_id |-> 0]

\* stage: none, running, aborted or finished.  before, base_before: the
\* item rows and the base rows at the trigger.  walked: entries the walker yielded.  foc_called, foc_failed:
\* labels find_or_create was called for and returned Err for.  upserts,
\* upsert_failed: entries insert_or_update was called for and returned Err
\* for.  unswept: no clean statement ran during the pass.  alone: no other
\* pass ran during the pass.  disk: the disk at the trigger.
NoLog ==
    [stage |-> "none", before |-> {}, walked |-> {}, foc_called |-> {},
     foc_failed |-> {}, upserts |-> {}, upsert_failed |-> {},
     unswept |-> TRUE, alone |-> TRUE, disk |-> {}, base_before |-> {}]

\* kind: none, pass (a pass ran alone, unswept and without error and
\* nothing happened since), pass_pass (two such passes in a row), sweeping
\* and pass_sweep (such a pass, then clean).  snap: the item rows at the end
\* of the first pass.  by: the task of the last pass.
NoTrail == [kind |-> "none", snap |-> {}, by |-> 0]

SetMax(S) == IF S = {} THEN 0 ELSE CHOOSE x \in S : \A y \in S : y <= x

\* rowid the store gives to the next inserted row of a table.
NewId(rows) == SetMax({r.id : r \in rows}) + 1

\* last_insert_rowid() after an INSERT OR IGNORE that inserted nothing: the
\* rowid of whatever insert the pooled connection ran last, or 0.
StaleRowIds == 0..MaxId

Init ==
    /\ fs \in StartDisks
    /\ item = {}
    /\ base = {}
    /\ task = [t \in Tasks |-> IdleTask]
    /\ cleaner = "idle"
    /\ deleter = IdleDeleter
    /\ budget = [passes |-> 0, failures |-> 0, fsops |-> 0, cleans |-> 0,
                 deletes |-> MaxDeletes]
    /\ log = [t \in Tasks |-> NoLog]
    /\ trail = NoTrail
    /\ emptier = IdleEmptier
    /\ tag = {}
    /\ tag_item = {}
    /\ tagger = IdleTagger
    /\ sync = IdleSync
    /\ hasher = IdleHasher

\* A store statement either succeeds or returns an error.
Outcome(ok) == ok \in BOOLEAN /\ (ok \/ budget.failures < MaxFailures)
Charge(ok) ==
    IF ok THEN budget ELSE [budget EXCEPT !.failures = @ + 1]

\* ------------------------------------------------------- store schema
\* UNIQUE (path, base_id) of table item.
ItemKeyTakenNever(rows, p, b) == FALSE
ItemKeyTaken(rows, p, b) == \E x \in rows : x.path = p /\ x.base_id = b

\* UNIQUE (label) of table base.
BaseKeyTaken(rows, l) == \E x \in rows : x.label = l

\* ------------------------------------------------------- db/item.rs
\* UPDATE item SET is_checked = false WHERE is_checked = true AND path != ''
mark_obsolete_all(rows) ==
    { IF r.is_checked /\ r.path # <<>>
        THEN [r EXCEPT !.is_checked = FALSE] ELSE r : r \in rows }

\* SELECT id FROM item WHERE path = ? AND base_id = ?
SelectItem(rows, p, b) ==
    {r.id : r \in {x \in rows : x.path = p /\ x.base_id = b}}

\* INSERT OR IGNORE INTO item: the row is dropped when its key is taken.
InsertOrIgnoreItem(rows, row) ==
    IF ItemKeyTaken(rows, row.path, row.base_id) THEN rows
    ELSE rows \cup {row}

\* UPDATE item SET is_checked = true, parent = ? WHERE id = ?
UpdateItemParentOnly(rows, id, par) ==
    { IF r.id = id THEN [r EXCEPT !.parent = par] ELSE r : r \in rows }
UpdateItem(rows, id, par) ==
    { IF r.id = id THEN [r EXCEPT !.is_checked = TRUE, !.parent = par]
      ELSE r : r \in rows }

\* DELETE FROM item WHERE is_checked = false
item_clean(rows) == {r \in rows : r.is_checked}

\* ------------------------------------------------------- db/base.rs
\* UPDATE base SET is_checked = false
mark_all_not_check(rows) == {[r EXCEPT !.is_checked = FALSE] : r \in rows}

\* SELECT id FROM base WHERE label = ?
SelectBase(rows, l) == {r.id : r \in {x \in rows : x.label = l}}

\* UPDATE base SET is_checked = true WHERE id = ?
CheckBase(rows, id) ==
    { IF r.id = id THEN [r EXCEPT !.is_checked = TRUE] ELSE r : r \in rows }

\* INSERT OR IGNORE INTO base (label)
InsertOrIgnoreBase(rows, row) ==
    IF BaseKeyTaken(rows, row.label) THEN rows ELSE rows \cup {row}

\* DELETE FROM base WHERE is_checked = false
base_clean(rows) == {r \in rows : r.is_checked}

\* ------------------------------------------------- api.rs reload_from_disk
Set(t, r) == task' = [task EXCEPT ![t] = r]
Log(t, r) == log' = [log EXCEPT ![t] = r]

Running(t) == task[t].pc # "idle"

\* The pass returns early when a bulk reset fails.
ResetErrPcContinue(next) == next
ResetErrPc(next) == "idle"

\* The entry loop of the current root is over: next root of model_paths.
NextRootOf(tk) ==
    [IdleTask EXCEPT !.pc = "root", !.roots = Tail(tk.roots)]

\* find_or_create returned Err: `continue` with the next root.
AfterFocErrorBreak(tk) == [IdleTask EXCEPT !.pc = "root"]
AfterFocError(tk) == NextRootOf(tk)

\* Back to the entry loop of the current root; when the walker has no entry
\* left the loop is over.
NextEntryOf(tk) ==
    IF tk.todo = {} THEN NextRootOf(tk)
    ELSE [tk EXCEPT !.pc = "walk", !.cur = <<>>, !.parent_id = 0, !.cur_id = 0]

\* insert_or_update returned Err: the error is logged, the loop goes on.
AfterUpsertErrorBreak(tk) == NextRootOf(tk)
AfterUpsertError(tk) == NextEntryOf(tk)

FocFailed(t) ==
    Log(t, [log[t] EXCEPT !.foc_failed = @ \cup {Head(task[t].roots)}])

UpsertFailed(t) ==
    Log(t, [log[t] EXCEPT !.upsert_failed =
                @ \cup {<<Head(task[t].roots), task[t].cur>>}])

\* GET reload_from_disk: the handler spawns the pass and returns.  The
\* spawned tasks have no identity of their own: a new one takes the lowest
\* free place of Tasks.  The rows before the pass are recorded for a pass
\* that starts with no other pass under way.
Trigger(t) ==
    /\ task[t].pc = "idle"
    /\ \A u \in Tasks : u < t => Running(u)
    /\ budget.passes < MaxPasses
    /\ Set(t, [IdleTask EXCEPT !.pc = "mark_items"])
    /\ budget' = [budget EXCEPT !.passes = @ + 1]
    /\ LET others == \E u \in Tasks \ {t} : Running(u) IN
       /\ log' = [u \in Tasks |->
                    IF u = t
                      THEN [NoLog EXCEPT !.stage = "running",
                                         !.before = IF others THEN {}
                                                      ELSE item,
                                         !.base_before = IF others THEN {}
                                                           ELSE base,
                                         !.disk = fs,
                                         !.unswept = (cleaner = "idle"),
                                         !.alone = ~others]
                      ELSE IF Running(u)
                        THEN [log[u] EXCEPT !.alone = FALSE, !.before = {},
                                            !.base_before = {}]
                        ELSE log[u]]
       /\ trail' = IF trail.kind = "pass" /\ ~others THEN trail
                   ELSE NoTrail
    /\ UNCHANGED <<fs, item, base, cleaner, deleter, emptier, tag, tag_item,
                   tagger, sync, hasher>>

\* item::mark_all_not_check; an error ends the task.
MarkItems(t) ==
    /\ task[t].pc = "mark_items"
    /\ \E ok \in BOOLEAN :
        /\ Outcome(ok)
        /\ budget' = Charge(ok)
        /\ IF ok
             THEN /\ item' = mark_obsolete_all(item)
                  /\ Set(t, [IdleTask EXCEPT !.pc = "mark_base"])
                  /\ UNCHANGED <<log, trail>>
             ELSE /\ item' = item
                  /\ Set(t, [IdleTask EXCEPT !.pc = ResetErrPc("mark_base")])
                  /\ Log(t, [log[t] EXCEPT !.stage = "aborted"])
                  /\ trail' = NoTrail
    /\ UNCHANGED <<fs, base, cleaner, deleter, emptier, tag, tag_item, tagger,
                   sync, hasher>>

\* base::mark_all_not_check; an error ends the task.
MarkBase(t) ==
    /\ task[t].pc = "mark_base"
    /\ \E ok \in BOOLEAN :
        /\ Outcome(ok)
        /\ budget' = Charge(ok)
        /\ IF ok
             THEN /\ base' = mark_all_not_check(base)
                  /\ Set(t, [IdleTask EXCEPT !.pc = "root",
                                             !.roots = RootOrder])
                  /\ UNCHANGED <<log, trail>>
             ELSE /\ base' = base
                  /\ Set(t, [IdleTask EXCEPT !.pc = ResetErrPc("root"),
                               !.roots = IF ResetErrPc("root") = "idle"
                                           THEN <<>> ELSE RootOrder])
                  /\ Log(t, [log[t] EXCEPT !.stage = "aborted"])
                  /\ trail' = NoTrail
    /\ UNCHANGED <<fs, item, cleaner, deleter, emptier, tag, tag_item, tagger,
                   sync, hasher>>

\* Loop over model_paths; find_or_create starts with its SELECT.  When the
\* loop is over the task ends.
RootSelect(t) ==
    /\ task[t].pc = "root"
    /\ IF task[t].roots = <<>>
         THEN /\ Set(t, IdleTask)
              /\ Log(t, [log[t] EXCEPT !.stage =
                           IF @ = "running" THEN "finished" ELSE @])
              /\ trail' =
                   IF ~(/\ log[t].stage = "running"
                        /\ log[t].alone /\ log[t].unswept
                        /\ log[t].foc_failed = {}
                        /\ log[t].upsert_failed = {})
                     THEN NoTrail
                   ELSE IF trail.kind = "pass"
                     THEN [trail EXCEPT !.kind = "pass_pass", !.by = t]
                     ELSE [kind |-> "pass", snap |-> item, by |-> t]
         ELSE /\ LET found == SelectBase(base, Head(task[t].roots)) IN
                 IF found # {}
                   THEN \E id \in found :
                          Set(t, [task[t] EXCEPT !.pc = "foc_update",
                                                 !.base_id = id])
                   ELSE Set(t, [task[t] EXCEPT !.pc = "foc_insert"])
              /\ Log(t, [log[t] EXCEPT !.foc_called =
                                          @ \cup {Head(task[t].roots)}])
              /\ UNCHANGED trail
    /\ UNCHANGED <<fs, item, base, cleaner, deleter, budget, emptier, tag,
                   tag_item, tagger, sync, hasher>>

\* The walk of the root starts once find_or_create has returned Ok.
StartWalk(t, id) ==
    /\ Set(t, NextEntryOf([task[t] EXCEPT !.base_id = id,
                 !.todo = WalkEntries(fs, Head(task[t].roots))]))
    /\ Log(t, [log[t] EXCEPT !.walked =
                 @ \cup WalkEntries(fs, Head(task[t].roots))])

\* find_or_create, label found: UPDATE base SET is_checked = true.
FocUpdate(t) ==
    /\ task[t].pc = "foc_update"
    /\ \E ok \in BOOLEAN :
        /\ Outcome(ok)
        /\ budget' = Charge(ok)
        /\ IF ok
             THEN /\ base' = CheckBase(base, task[t].base_id)
                  /\ StartWalk(t, task[t].base_id)
             ELSE /\ base' = base
                  /\ Set(t, AfterFocError(task[t]))
                  /\ FocFailed(t)
    /\ UNCHANGED <<fs, item, cleaner, deleter, trail, emptier, tag, tag_item,
                   tagger, sync, hasher>>

\* find_or_create, label not found: INSERT OR IGNORE INTO base.
FocInsert(t) ==
    /\ task[t].pc = "foc_insert"
    /\ \E ok \in BOOLEAN :
        /\ Outcome(ok)
        /\ budget' = Charge(ok)
        /\ IF ok
             THEN LET l == Head(task[t].roots)
                      id == NewId(base)
                      after == InsertOrIgnoreBase(base,
                                   BaseRow(id, l, DefaultChecked)) IN
                  /\ base' = after
                  /\ IF after # base
                       THEN id <= MaxId /\ StartWalk(t, id)
                       ELSE \E stale \in StaleRowIds : StartWalk(t, stale)
             ELSE /\ base' = base
                  /\ Set(t, AfterFocError(task[t]))
                  /\ FocFailed(t)
    /\ UNCHANGED <<fs, item, cleaner, deleter, trail, emptier, tag, tag_item,
                   tagger, sync, hasher>>

\* One entry of the walk (a directory is yielded before what it holds);
\* for an entry that needs an update, insert_or_update starts with the
\* SELECT of its parent.
WalkEntry(t) ==
    /\ task[t].pc = "walk"
    /\ \E e \in task[t].todo :
              /\ \A o \in task[t].todo : ~(o # e /\ IsPrefix(o.path, e.path))
              /\ LET tk == [task[t] EXCEPT !.todo = @ \ {e}, !.cur = e.path]
                     found == SelectItem(item, Parent(e.path), tk.base_id) IN
                 IF ~NeedUpdate(e)
                   THEN Set(t, NextEntryOf(tk)) /\ UNCHANGED log
                   ELSE /\ Log(t, [log[t] EXCEPT !.upserts =
                                     @ \cup {<<e.label, e.path>>}])
                        /\ IF ~HasParent(e.path)
                             THEN Set(t, [tk EXCEPT !.pc = "iou_select"])
                             ELSE IF found # {}
                               THEN \E id \in found :
                                      Set(t, [tk EXCEPT !.pc = "iou_select",
                                                        !.parent_id = id])
                               ELSE Set(t, [tk EXCEPT !.pc = "iou_parent"])
    /\ UNCHANGED <<fs, item, base, cleaner, deleter, budget, trail, emptier,
                   tag, tag_item, tagger, sync, hasher>>

\* insert_or_update, parent not found: INSERT OR IGNORE of the parent row.
IouParent(t) ==
    /\ task[t].pc = "iou_parent"
    /\ \E ok \in BOOLEAN :
        /\ Outcome(ok)
        /\ budget' = Charge(ok)
        /\ IF ok
             THEN LET id == NewId(item)
                      after == InsertOrIgnoreItem(item,
                                 ItemRow(id, Parent(task[t].cur),
                                         task[t].base_id, NULL,
                                         DefaultChecked)) IN
                  /\ item' = after
                  /\ IF after # item
                       THEN /\ id <= MaxId
                            /\ Set(t, [task[t] EXCEPT !.pc = "iou_select",
                                                      !.parent_id = id])
                       ELSE \E stale \in StaleRowIds :
                              Set(t, [task[t] EXCEPT !.pc = "iou_select",
                                                     !.parent_id = stale])
                  /\ UNCHANGED log
             ELSE /\ item' = item
                  /\ Set(t, AfterUpsertError(task[t]))
                  /\ UpsertFailed(t)
    /\ UNCHANGED <<fs, base, cleaner, deleter, trail, emptier, tag, tag_item,
                   tagger, sync, hasher>>

\* insert_or_update: SELECT of the entry's own row.
IouSelect(t) ==
    /\ task[t].pc = "iou_select"
    /\ LET found == SelectItem(item, task[t].cur, task[t].base_id) IN
       IF found # {}
         THEN \E id \in found :
                Set(t, [task[t] EXCEPT !.pc = "iou_update", !.cur_id = id])
         ELSE Set(t, [task[t] EXCEPT !.pc = "iou_insert"])
    /\ UNCHANGED <<fs, item, base, cleaner, deleter, budget, log, trail,
                   emptier, tag, tag_item, tagger, sync, hasher>>

\* insert_or_update, row found: UPDATE is_checked and parent.
IouUpdate(t) ==
    /\ task[t].pc = "iou_update"
    /\ \E ok \in BOOLEAN :
        /\ Outcome(ok)
        /\ budget' = Charge(ok)
        /\ IF ok
             THEN /\ item' = UpdateItem(item, task[t].cur_id,
                                        task[t].parent_id)
                  /\ Set(t, NextEntryOf(task[t]))
                  /\ UNCHANGED log
             ELSE /\ item' = item
                  /\ Set(t, AfterUpsertError(task[t]))
                  /\ UpsertFailed(t)
    /\ UNCHANGED <<fs, base, cleaner, deleter, trail, emptier, tag, tag_item,
                   tagger, sync, hasher>>

\* insert_or_update, row not found: INSERT OR IGNORE, with the parent
\* column only when parent_id is not 0.
IouInsert(t) ==
    /\ task[t].pc = "iou_insert"
    /\ \E ok \in BOOLEAN :
        /\ Outcome(ok)
        /\ budget' = Charge(ok)
        /\ IF ok
             THEN LET id == NewId(item)
                      par == IF task[t].parent_id # 0
                               THEN task[t].parent_id ELSE NULL
                      after == InsertOrIgnoreItem(item,
                                 ItemRow(id, task[t].cur, task[t].base_id,
                                         par, DefaultChecked)) IN
                  /\ item' = after
                  /\ after # item => id <= MaxId
                  /\ Set(t, NextEntryOf(task[t]))
                  /\ UNCHANGED log
             ELSE /\ item' = item
                  /\ Set(t, AfterUpsertError(task[t]))
                  /\ UpsertFailed(t)
    /\ UNCHANGED <<fs, base, cleaner, deleter, trail, emptier, tag, tag_item,
                   tagger, sync, hasher>>

\* ------------------------------------------------------- api.rs clean
Swept ==
    [u \in Tasks |-> IF Running(u) THEN [log[u] EXCEPT !.unswept = FALSE]
                     ELSE log[u]]

\* GET clean, first statement: item::clean (an error counts as 0 rows).
CleanItems ==
    /\ cleaner = "idle"
    /\ budget.cleans < MaxCleans
    /\ \E ok \in BOOLEAN :
        /\ Outcome(ok)
        /\ budget' = [Charge(ok) EXCEPT !.cleans = @ + 1]
        /\ item' = IF ok THEN item_clean(item) ELSE item
        /\ trail' = IF /\ ok
                       /\ trail.kind \in {"pass", "pass_pass"}
                       /\ \A u \in Tasks : ~Running(u)
                      THEN [trail EXCEPT !.kind = "sweeping"]
                      ELSE NoTrail
    /\ cleaner' = "base"
    /\ log' = Swept
    /\ UNCHANGED <<fs, base, task, deleter, emptier, tag, tag_item, tagger,
                   sync, hasher>>

\* GET clean, second statement: base::clean.
CleanBase ==
    /\ cleaner = "base"
    /\ \E ok \in BOOLEAN :
        /\ Outcome(ok)
        /\ budget' = Charge(ok)
        /\ base' = IF ok THEN base_clean(base) ELSE base
        /\ trail' = IF ok /\ trail.kind = "sweeping"
                      THEN [trail EXCEPT !.kind = "pass_sweep"]
                      ELSE NoTrail
    /\ cleaner' = "idle"
    /\ log' = Swept
    /\ UNCHANGED <<fs, item, task, deleter, emptier, tag, tag_item, tagger,
                   sync, hasher>>

\* ------------------------------------------------------- api.rs delete
\* UPDATE item SET is_checked = false WHERE id = ?
mark_obsolete(rows, id) ==
    { IF r.id = id THEN [r EXCEPT !.is_checked = FALSE] ELSE r : r \in rows }

\* SELECT item.path, base.label FROM base INNER JOIN item ... WHERE item.id
PathAndLabel(id) ==
    { <<x[1].path, x[2].label>> :
        x \in {y \in item \X base : y[1].id = id /\ y[2].id = y[1].base_id} }

\* The three files of an item: the model, its sidecar and its preview.
FilesOf(rel) ==
    <<rel, SetExtension(rel, "json"), SetExtension(rel, PREVIEW_EXT)>>

\* move_to_dir: nothing to do for a path without file name, else rename to
\* dir/file_name; an error is logged by the caller.
move_to_dir(f, l, file, dir) ==
    IF Len(file) = 0 THEN f
    ELSE Rename(f, l, file, Append(dir, file[Len(file)]))

\* Next id of the request, or the end of the handler.
NextIdOf(d) ==
    IF Len(d.ids) <= 1 THEN [IdleDeleter EXCEPT !.marked = d.marked]
    ELSE [IdleDeleter EXCEPT !.pc = "mark", !.ids = Tail(d.ids),
                             !.marked = d.marked]

\* Ids a request may carry: those of the rows, and one that has no row.
RequestIds == {r.id : r \in item} \cup {0}

\* GET delete with a list of ids.
DeleteRequest ==
    /\ deleter.pc = "idle"
    /\ budget.deletes < MaxDeletes
    /\ \E n \in 1..MaxDelIds : \E ids \in [1..n -> RequestIds] :
         deleter' = [IdleDeleter EXCEPT !.pc = "mark", !.ids = ids,
                                        !.marked = deleter.marked]
    /\ budget' = [budget EXCEPT !.deletes = @ + 1]
    /\ UNCHANGED <<fs, item, base, task, cleaner, log, trail, emptier, tag,
                   tag_item, tagger, sync, hasher>>

\* mark_obsolete, first statement; an error skips the id.
DeleteMark ==
    /\ deleter.pc = "mark"
    /\ \E ok \in BOOLEAN :
        /\ Outcome(ok)
        /\ budget' = Charge(ok)
        /\ IF ok
             THEN /\ item' = mark_obsolete(item, Head(deleter.ids))
                  /\ deleter' = [deleter EXCEPT !.pc = "select",
                                    !.hit = {r \in item :
                                               r.id = Head(deleter.ids)},
                                    !.marked = @ \cup
                                       {r.id : r \in {x \in item :
                                                 x.id = Head(deleter.ids)}}]
             ELSE /\ item' = item
                  /\ deleter' = NextIdOf(deleter)
    /\ trail' = NoTrail
    /\ UNCHANGED <<fs, base, task, cleaner, log, emptier, tag, tag_item,
                   tagger, sync, hasher>>

\* mark_obsolete, second statement: fetch_one of the path and the label;
\* no row skips the id.  The label is looked up in model_paths.
DeleteSelect ==
    /\ deleter.pc = "select"
    /\ LET found == PathAndLabel(Head(deleter.ids)) IN
       IF found = {}
         THEN deleter' = NextIdOf(deleter)
         ELSE \E pl \in found :
                IF pl[2] \notin Labels
                  THEN deleter' = NextIdOf(deleter)
                  ELSE deleter' = [deleter EXCEPT !.pc = "move",
                                     !.rel = pl[1], !.label = pl[2],
                                     !.files = FilesOf(pl[1]),
                                     !.disk = fs]
    /\ UNCHANGED <<fs, item, base, task, cleaner, budget, log, trail, emptier,
                   tag, tag_item, tagger, sync, hasher>>

\* One of the three move_to_dir calls.
DeleteMove ==
    /\ deleter.pc = "move"
    /\ fs' = move_to_dir(fs, deleter.label, Head(deleter.files),
                         <<TRASH_DIR>>)
    /\ deleter' = IF Len(deleter.files) > 1
                    THEN [deleter EXCEPT !.files = Tail(@)]
                    ELSE NextIdOf(deleter)
    /\ trail' = NoTrail
    /\ UNCHANGED <<item, base, task, cleaner, budget, log, emptier, tag,
                   tag_item, tagger, sync, hasher>>

\* -------------------------------------------------- api.rs empty_trash
\* Entries of root l inside its trash directory, the directory included.
InTrash(e, l) ==
    e.label = l /\ Len(e.path) > 0 /\ e.path[1] = TRASH_DIR

\* Disks fs::remove_dir_all(base_path/.trash) may leave behind.  The call
\* fails when the directory does not exist; it then changes nothing.  It
\* may also fail part-way, after it removed some of the content.
RemoveDirAll(f, l, ok) ==
    IF ~OnDisk(f, l, <<TRASH_DIR>>) THEN IF ok THEN {} ELSE {f}
    ELSE IF ok THEN {{e \in f : ~InTrash(e, l)}}
    ELSE LET inside == {e \in f : InTrash(e, l) /\ e.path # <<TRASH_DIR>>} IN
         {g \in {(f \ inside) \cup k : k \in SUBSET inside} : FsClosed(g)}

\* Variant: an error of remove_dir_all ends the loop.
AfterEmptyErrorBreak(roots) == <<>>

\* After an error of remove_dir_all: the error is logged and the loop
\* takes the next root.
AfterEmptyError(roots) == Tail(roots)

\* GET empty_trash.
EmptyRequest ==
    /\ emptier.pc = "idle"
    /\ emptier.n < MaxEmpties
    /\ emptier' = [pc |-> "run", roots |-> RootOrder, n |-> emptier.n + 1,
                   tried |-> {}, failed |-> {}]
    /\ UNCHANGED <<fs, item, base, task, cleaner, deleter, budget, log, trail,
                   tag, tag_item, tagger, sync, hasher>>

\* One turn of the loop over model_paths: remove_dir_all of the trash
\* directory of the root.
EmptyRoot ==
    /\ emptier.pc = "run"
    /\ LET l == Head(emptier.roots) IN
       \E ok \in BOOLEAN :
         /\ fs' \in RemoveDirAll(fs, l, ok)
         /\ LET rest == IF ok THEN Tail(emptier.roots)
                               ELSE AfterEmptyError(emptier.roots) IN
            emptier' = [emptier EXCEPT
                          !.pc = IF rest = <<>> THEN "idle" ELSE "run",
                          !.roots = rest,
                          !.tried = @ \cup {l},
                          !.failed = IF ok THEN @ ELSE @ \cup {l}]
    /\ trail' = NoTrail
    /\ UNCHANGED <<item, base, task, cleaner, deleter, budget, log, tag,
                   tag_item, tagger, sync, hasher>>

\* ------------------------------------------------------- db/tag.rs
\* Rows of tag and tag_item.  tag_item.tag holds what add_tag_item binds to
\* it: the id of the tag row.
TagRow(i, n) == [id |-> i, name |-> n]
TagItemRow(i, it, t) == [id |-> i, item |-> it, tag |-> t]

\* Tag names and item ids the callers pass; "1" stands for the names
\* add_tag_from_model_info makes of the floating-point precision.
TagNames == {"nsfw", "1"}
TagItems == {1, 2}

\* Text the store compares an integer with when one side of = is a text
\* column: the decimal digits of the integer.
AsText(n) == IF n \in 0..9 THEN <<"0", "1", "2", "3", "4", "5", "6", "7",
                                    "8", "9">>[n + 1] ELSE "many"

\* UNIQUE (name) of table tag and UNIQUE (item, tag) of table tag_item.
TagNameTaken(rows, n) == \E x \in rows : x.name = n
TagItemKeyTaken(rows, it, t) == \E x \in rows : x.item = it /\ x.tag = t

\* tag_item.tag REFERENCES tag ON DELETE CASCADE: the associations that
\* stay when the tag rows gone are deleted.
Cascade(assoc, gone) == {a \in assoc : \A g \in gone : a.tag # g.id}

\* INSERT OR IGNORE INTO tag (name) VALUES (?)
InsertOrIgnoreTag(rows, n) ==
    IF TagNameTaken(rows, n) THEN rows
    ELSE rows \cup {TagRow(NewId(rows), n)}

\* DELETE FROM tag WHERE name = ?: the rows deleted.
TagRowsNamedNone(rows, n) == {}
TagRowsNamed(rows, n) == {r \in rows : r.name = n}

\* SELECT name FROM tag WHERE name = ?  /  SELECT id FROM tag WHERE name = ?
SelectTagIdNone(rows, n) == {}
SelectTagId(rows, n) == {r.id : r \in TagRowsNamed(rows, n)}

\* UPDATE tag SET name = ? WHERE name = ?: fails on a row that would take a
\* name another row has.
RenameConflict(rows, old, new) ==
    \E r \in rows : r.name = old /\ \E x \in rows : x # r /\ x.name = new
UpdateTagName(rows, old, new) ==
    { IF r.name = old THEN [r EXCEPT !.name = new] ELSE r : r \in rows }

\* INSERT OR IGNORE INTO tag_item (item, tag) VALUES (?, ?)
InsertOrIgnoreTagItem(rows, it, t) ==
    IF TagItemKeyTaken(rows, it, t) THEN rows
    ELSE rows \cup {TagItemRow(NewId(rows), it, t)}

\* DELETE FROM tag_item WHERE item = ? AND tag = ?, the tag bound as text.
DeleteTagItem(rows, it, n) ==
    {r \in rows : ~(r.item = it /\ AsText(r.tag) = n)}

\* item::get_tags: SELECT tag.name FROM tag INNER JOIN tag_item ON
\* tag.name = tag_item.tag WHERE tag_item.item = ?
get_tags(it) ==
    {t.name : t \in {x \in tag : \E a \in tag_item :
                                   a.item = it /\ x.name = AsText(a.tag)}}

\* Calls the callers may make.
TagSeqs == UNION {[1..k -> TagNames] : k \in 1..MaxTagSeq}
TagCalls ==
    {[NoCall EXCEPT !.op = "add_tag", !.name = n] : n \in TagNames}
    \cup {[NoCall EXCEPT !.op = "remove_tag", !.name = n] : n \in TagNames}
    \cup {[NoCall EXCEPT !.op = "rename_tag", !.name = n[1], !.new = n[2]] :
            n \in TagNames \X TagNames}
    \cup {[NoCall EXCEPT !.op = "add_tag_item", !.item = x[1], !.all = x[2]] :
            x \in TagItems \X TagSeqs}
    \cup {[NoCall EXCEPT !.op = "remove_tag_item", !.item = x[1],
                         !.name = x[2]] : x \in TagItems \X TagNames}

FirstPc(c) ==
    CASE c.op = "add_tag" -> "add_tag"
      [] c.op = "remove_tag" -> "remove_tag"
      [] c.op = "rename_tag" -> "rename_select"
      [] c.op = "add_tag_item" -> "ati_select"
      [] c.op = "remove_tag_item" -> "rti_delete"

\* The call returns.
Return(res) ==
    [tagger EXCEPT !.pc = "idle", !.res = res, !.tags = <<>>]
\* The call returns the error of the store.
ReturnFailure == [Return("err") EXCEPT !.failed = TRUE]

\* A tag function is called.
TagCall ==
    /\ tagger.pc = "idle"
    /\ tagger.n < MaxTagOps
    /\ \E c \in TagCalls :
         tagger' = [pc |-> FirstPc(c), call |-> c, tags |-> c.all,
                    tag_id |-> 0, n |-> tagger.n + 1, res |-> "none",
                    failed |-> FALSE,
                    before |-> [tag |-> tag, tag_item |-> tag_item],
                    prev |-> [call |-> tagger.call, res |-> tagger.res]]
    /\ UNCHANGED <<fs, item, base, task, cleaner, deleter, budget, log, trail,
                   emptier, tag, tag_item, sync, hasher>>

\* add_tag.
AddTag ==
    /\ tagger.pc = "add_tag"
    /\ \E ok \in BOOLEAN :
        /\ Outcome(ok)
        /\ budget' = Charge(ok)
        /\ tag' = IF ok THEN InsertOrIgnoreTag(tag, tagger.call.name) ELSE tag
        /\ tagger' = IF ok THEN Return("ok") ELSE ReturnFailure
    /\ UNCHANGED <<fs, item, base, task, cleaner, deleter, log, trail,
                   emptier, tag_item, sync, hasher>>

\* remove_tag.
RemoveTag ==
    /\ tagger.pc = "remove_tag"
    /\ \E ok \in BOOLEAN :
        /\ Outcome(ok)
        /\ budget' = Charge(ok)
        /\ IF ok
             THEN LET gone == TagRowsNamed(tag, tagger.call.name) IN
                  /\ tag' = tag \ gone
                  /\ tag_item' = Cascade(tag_item, gone)
                  /\ tagger' = Return("ok")
             ELSE /\ UNCHANGED <<tag, tag_item>>
                  /\ tagger' = ReturnFailure
    /\ UNCHANGED <<fs, item, base, task, cleaner, deleter, log, trail,
                   emptier, sync, hasher>>

\* rename_tag, the lookup of the new name: Ok with a row returns the
\* "already exists" error; no row and an error of the store both go on to
\* the UPDATE.
RenameSelect ==
    /\ tagger.pc = "rename_select"
    /\ \E ok \in BOOLEAN :
        /\ Outcome(ok)
        /\ budget' = Charge(ok)
        /\ tagger' =
             IF ok /\ SelectTagId(tag, tagger.call.new) # {}
               THEN Return("err")
               ELSE [tagger EXCEPT !.pc = "rename_update",
                                   !.failed = @ \/ ~ok]
    /\ UNCHANGED <<fs, item, base, task, cleaner, deleter, log, trail,
                   emptier, tag, tag_item, sync, hasher>>

\* rename_tag, the UPDATE.
RenameUpdate ==
    /\ tagger.pc = "rename_update"
    /\ \E ok \in BOOLEAN :
        /\ Outcome(ok)
        /\ budget' = Charge(ok)
        /\ IF ~ok
             THEN tag' = tag /\ tagger' = ReturnFailure
             ELSE IF RenameConflict(tag, tagger.call.name, tagger.call.new)
               THEN tag' = tag /\ tagger' = Return("err")
               ELSE /\ tag' = UpdateTagName(tag, tagger.call.name,
                                            tagger.call.new)
                    /\ tagger' = Return("ok")
    /\ UNCHANGED <<fs, item, base, task, cleaner, deleter, log, trail,
                   emptier, tag_item, sync, hasher>>

\* add_tag_item, the lookup of the id of the next tag: no row and an error
\* of the store both go on to the INSERT.
AtiSelect ==
    /\ tagger.pc = "ati_select"
    /\ \E ok \in BOOLEAN :
        /\ Outcome(ok)
        /\ budget' = Charge(ok)
        /\ LET found == SelectTagId(tag, Head(tagger.tags)) IN
           IF ok /\ found # {}
             THEN \E id \in found :
                    tagger' = [tagger EXCEPT !.pc = "ati_link", !.tag_id = id]
             ELSE tagger' = [tagger EXCEPT !.pc = "ati_insert",
                                           !.failed = @ \/ ~ok]
    /\ UNCHANGED <<fs, item, base, task, cleaner, deleter, log, trail,
                   emptier, tag, tag_item, sync, hasher>>

\* add_tag_item, INSERT INTO tag (name) and last_insert_rowid; an error
\* returns from the function.
AtiInsert ==
    /\ tagger.pc = "ati_insert"
    /\ \E ok \in BOOLEAN :
        /\ Outcome(ok)
        /\ budget' = Charge(ok)
        /\ IF ~ok
             THEN tag' = tag /\ tagger' = ReturnFailure
             ELSE IF TagNameTaken(tag, Head(tagger.tags))
               THEN tag' = tag /\ tagger' = Return("err")
               ELSE /\ tag' = tag \cup {TagRow(NewId(tag), Head(tagger.tags))}
                    /\ tagger' = [tagger EXCEPT !.pc = "ati_link",
                                                !.tag_id = NewId(tag)]
    /\ UNCHANGED <<fs, item, base, task, cleaner, deleter, log, trail,
                   emptier, tag_item, sync, hasher>>

\* add_tag_item, INSERT OR IGNORE INTO tag_item, then the next tag.
AtiLink ==
    /\ tagger.pc = "ati_link"
    /\ \E ok \in BOOLEAN :
        /\ Outcome(ok)
        /\ budget' = Charge(ok)
        /\ IF ~ok
             THEN tag_item' = tag_item /\ tagger' = ReturnFailure
             ELSE /\ tag_item' = InsertOrIgnoreTagItem(tag_item,
                                     tagger.call.item, tagger.tag_id)
                  /\ tagger' = IF Len(tagger.tags) > 1
                                 THEN [tagger EXCEPT !.pc = "ati_select",
                                                     !.tags = Tail(@)]
                                 ELSE Return("ok")
    /\ UNCHANGED <<fs, item, base, task, cleaner, deleter, log, trail,
                   emptier, tag, sync, hasher>>

\* remove_tag_item.
RemoveTagItem ==
    /\ tagger.pc = "rti_delete"
    /\ \E ok \in BOOLEAN :
        /\ Outcome(ok)
        /\ budget' = Charge(ok)
        /\ tag_item' = IF ok THEN DeleteTagItem(tag_item, tagger.call.item,
                                                tagger.call.name)
                             ELSE tag_item
        /\ tagger' = IF ok THEN Return("ok") ELSE ReturnFailure
    /\ UNCHANGED <<fs, item, base, task, cleaner, deleter, log, trail,
                   emptier, tag, sync, hasher>>

\* ------------------------------------------------------- civitai.rs
\* str::replace(ext, to) on a path: every occurrence of the text of the
\* extension is replaced, in the extension and in the names.  A name whose
\* stem is the text of the extension stands for the names that contain it.
\* (The text of the root directory is not part of the model's paths.)
Replace(p, from, to) ==
    [i \in 1..Len(p) |->
        [p[i] EXCEPT !.stem = IF @ = from THEN to ELSE @,
                     !.ext = IF @ = from THEN to ELSE @]]

\* File::create and a write of the bytes d: fails, changing nothing, when
\* the directory of the path does not exist or the path is a directory.
CanCreate(f, l, p) ==
    /\ Len(p) > 0
    /\ Entry(l, Parent(p), "dir") \in f
    /\ ~\E e \in f : e.label = l /\ e.path = p /\ e.kind = "dir"
WriteFile(f, l, p, d) ==
    {e \in f : ~(e.label = l /\ e.path = p)} \cup {File(l, p, d)}

\* Files of one root update_model_info looks up: the files WalkDir yields
\* outside hidden directories whose extension is one of config.extensions.
Accepted(f, l) ==
    {e \in WalkEntries(f, l) : e.kind = "file" /\ NeedUpdate(e)}

\* Bytes of the sidecar and of the first image of a response.
InfoBytes == "info"
ImageBytes == "image"

\* After an error of get_model_info: the error is logged and the walk goes
\* on.  After an error of download_info: update_model_info returns it.
AfterLookupErrorPc == "next"
AfterDownloadErrorPc == "idle"

\* The next file of the root, the next root, or the end of the run.
RECURSIVE SyncAdvance(_, _)
SyncAdvance(s, f) ==
    IF s.todo # {} THEN [s EXCEPT !.pc = "lookup"]
    ELSE IF s.roots = <<>> THEN [s EXCEPT !.pc = "idle"]
    ELSE SyncAdvance([s EXCEPT !.roots = Tail(@),
                               !.todo = Accepted(f, Head(s.roots))], f)

\* Where the run stands after pc was set: "next" takes the next file.
SyncGo(s, f) == IF s.pc = "next" THEN SyncAdvance(s, f) ELSE s

\* sync_civitai, or the --update-model-info switch: update_model_info
\* starts, with the overwrite_thumbnail of the configuration.
SyncStart ==
    /\ sync.pc = "idle"
    /\ sync.n < MaxSyncs
    /\ \E ow \in BOOLEAN :
         sync' = SyncAdvance(
                   [IdleSync EXCEPT !.roots = RootOrder, !.n = sync.n + 1,
                                    !.overwrite = ow, !.disk = fs], fs)
    /\ UNCHANGED <<fs, item, base, task, cleaner, deleter, budget, log, trail,
                   emptier, tag, tag_item, tagger, hasher>>

\* get_model_info of one file: Err (the hash, the request or the decoding
\* of the response failed) or a response with or without images.
SyncLookup ==
    /\ sync.pc = "lookup"
    /\ \E e \in sync.todo : \E ok \in BOOLEAN : \E img \in BOOLEAN :
         LET s == [sync EXCEPT !.todo = @ \ {e}, !.cur = e,
                               !.seen = @ \cup {e}] IN
         sync' = IF ok
                   THEN [s EXCEPT !.pc = "sidecar", !.image = img]
                   ELSE SyncGo([s EXCEPT !.pc = AfterLookupErrorPc,
                                         !.failed = @ \cup {e}], fs)
    /\ UNCHANGED <<fs, item, base, task, cleaner, deleter, budget, log, trail,
                   emptier, tag, tag_item, tagger, hasher>>

\* download_info returns: last (history) keeps the file, whether a preview
\* download was started, the result, and the disk before and after.
SyncReturn(s, res, dl, after) ==
    [s EXCEPT !.last = [entry |-> s.cur, overwrite |-> s.overwrite,
                        image |-> s.image, downloaded |-> dl, res |-> res,
                        before |-> s.before, after |-> after],
              !.pc = IF res = "ok" THEN "next" ELSE AfterDownloadErrorPc,
              !.aborted = @ \/ (res = "err" /\ AfterDownloadErrorPc = "idle")]

\* download_info, first half: the sidecar is created and written; then the
\* preview is looked for.  At an error of File::create nothing is written,
\* at an error of write_all the file stays empty.
SyncSidecar ==
    /\ sync.pc = "sidecar"
    /\ LET l == sync.cur.label
           ext == ExtensionOf(sync.cur.path)
           info_file == Replace(sync.cur.path, ext, "json")
           image_file == Replace(sync.cur.path, ext, "jpeg")
           s == [sync EXCEPT !.before = fs] IN
       \E out \in {"ok", "no_create", "no_write"} :
         IF out = "no_create" \/ ~CanCreate(fs, l, info_file)
           THEN /\ fs' = fs
                /\ sync' = SyncGo(SyncReturn(s, "err", FALSE, fs), fs)
         ELSE IF out = "no_write"
           THEN /\ fs' = WriteFile(fs, l, info_file, "")
                /\ sync' = SyncGo(SyncReturn(s, "err", FALSE, fs'), fs')
         ELSE /\ fs' = WriteFile(fs, l, info_file, InfoBytes)
              /\ sync' =
                   IF (OnDisk(fs', l, image_file) /\ ~sync.overwrite)
                      \/ ~sync.image
                     THEN SyncGo(SyncReturn(s, "ok", FALSE, fs'), fs')
                     ELSE [s EXCEPT !.pc = "preview"]
    /\ UNCHANGED <<item, base, task, cleaner, deleter, budget, log, trail,
                   emptier, tag, tag_item, tagger, hasher>>

\* download_info, second half: the first image is requested; its bytes are
\* written to the preview file.
SyncPreview ==
    /\ sync.pc = "preview"
    /\ LET l == sync.cur.label
           image_file == Replace(sync.cur.path, ExtensionOf(sync.cur.path),
                                 "jpeg") IN
       \E out \in {"ok", "no_download", "no_create"} :
         IF out = "ok" /\ CanCreate(fs, l, image_file)
           THEN /\ fs' = WriteFile(fs, l, image_file, ImageBytes)
                /\ sync' = SyncGo(SyncReturn(sync, "ok", TRUE, fs'), fs')
           ELSE /\ fs' = fs
                /\ sync' = SyncGo(SyncReturn(sync, "err", TRUE, fs), fs)
    /\ UNCHANGED <<item, base, task, cleaner, deleter, budget, log, trail,
                   emptier, tag, tag_item, tagger, hasher>>

\* ------------------------------------------- civitai.rs content identity
\* The bytes a file may hold.
Bytes == {0, 1}
ByteSeqs(n) == UNION {[1..k -> Bytes] : k \in 0..n}

\* Sha256 of the byte sequences of up to four bytes 0 and 1, as the 32
\* bytes of the digest.
Sha256(b) ==
    CASE b = <<>> ->
           <<227, 176, 196, 66, 152, 252, 28, 20, 154, 251, 244, 200, 153, 111, 185, 36,
             39, 174, 65, 228, 100, 155, 147, 76, 164, 149, 153, 27, 120, 82, 184, 85>>
      [] b = <<0>> ->
           <<110, 52, 11, 156, 255, 179, 122, 152, 156, 165, 68, 230, 187, 120, 10, 44,
             120, 144, 29, 63, 179, 55, 56, 118, 133, 17, 163, 6, 23, 175, 160, 29>>
      [] b = <<1>> ->
           <<75, 245, 18, 47, 52, 69, 84, 197, 59, 222, 46, 187, 140, 210, 183, 227,
             209, 96, 10, 214, 49, 195, 133, 165, 215, 204, 226, 60, 119, 133, 69, 154>>
      [] b = <<0, 0>> ->
           <<150, 162, 150, 210, 36, 242, 133, 198, 123, 238, 147, 195, 15, 138, 48, 145,
             87, 240, 218, 163, 93, 197, 184, 126, 65, 11, 120, 99, 10, 9, 207, 199>>
      [] b = <<0, 1>> ->
           <<180, 19, 244, 125, 19, 238, 47, 230, 200, 69, 178, 238, 20, 26, 248, 29,
             232, 88, 223, 78, 197, 73, 165, 139, 121, 112, 187, 150, 100, 91, 200, 210>>
      [] b = <<1, 0>> ->
           <<71, 220, 84, 12, 148, 206, 183, 4, 162, 56, 117, 193, 18, 115, 225, 107,
             176, 184, 168, 122, 237, 132, 222, 145, 31, 33, 51, 86, 129, 21, 242, 84>>
      [] b = <<1, 1>> ->
           <<157, 207, 151, 161, 132, 243, 38, 35, 209, 26, 115, 18, 76, 235, 153, 165,
             112, 155, 8, 55, 33, 232, 120, 161, 109, 120, 245, 150, 113, 139, 167, 178>>
      [] b = <<0, 0, 0>> ->
           <<112, 158, 128, 200, 132, 135, 162, 65, 30, 30, 228, 223, 185, 242, 42, 134,
             20, 146, 210, 12, 71, 101, 21, 12, 12, 121, 74, 189, 112, 248, 20, 124>>
      [] b = <<0, 0, 1>> ->
           <<207, 118, 5, 237, 27, 199, 53, 246, 200, 37, 85, 65, 84, 98, 116, 103,
             225, 202, 201, 223, 84, 206, 232, 105, 146, 24, 237, 67, 70, 3, 197, 104>>
      [] b = <<0, 1, 0>> ->
           <<250, 238, 147, 87, 99, 4, 79, 18, 77, 117, 38, 117, 90, 80, 88, 163,
             63, 148, 2, 165, 149, 153, 77, 89, 237, 221, 75, 232, 84, 111, 242, 1>>
      [] b = <<0, 1, 1>> ->
           <<251, 181, 158, 209, 14, 156, 212, 255, 69, 161, 44, 91, 185, 44, 189, 128,
             223, 152, 75, 161, 254, 96, 242, 106, 48, 254, 191, 33, 142, 47, 15, 94>>
      [] b = <<1, 0, 0>> ->
           <<251, 80, 220, 7, 23, 255, 38, 108, 249, 186, 248, 43, 28, 231, 161, 194,
             239, 109, 146, 71, 133, 150, 128, 177, 26, 25, 251, 112, 119, 245, 242, 34>>
      [] b = <<1, 0, 1>> ->
           <<133, 249, 13, 254, 161, 216, 2, 126, 20, 99, 229, 202, 151, 26, 37, 1,
             16, 162, 13, 240, 17, 157, 32, 74, 116, 34, 11, 198, 53, 22, 209, 91>>
      [] b = <<1, 1, 0>> ->
           <<159, 68, 172, 106, 203, 138, 55, 176, 11, 97, 93, 200, 146, 89, 211, 6,
             3, 91, 232, 45, 238, 125, 178, 180, 114, 228, 196, 131, 38, 25, 84, 64>>
      [] b = <<1, 1, 1>> ->
           <<117, 200, 253, 4, 173, 145, 106, 236, 62, 61, 92, 183, 106, 69, 43, 17,
             107, 61, 77, 9, 18, 160, 164, 133, 233, 251, 142, 61, 36, 14, 33, 12>>
      [] b = <<0, 0, 0, 0>> ->
           <<223, 63, 97, 152, 4, 169, 47, 219, 64, 87, 25, 45, 196, 61, 215, 72,
             234, 119, 138, 220, 82, 188, 73, 140, 232, 5, 36, 192, 20, 184, 17, 25>>
      [] b = <<0, 0, 0, 1>> ->
           <<180, 7, 17, 168, 140, 112, 57, 117, 111, 184, 167, 56, 39, 234, 190, 44,
             15, 229, 160, 52, 108, 167, 224, 161, 4, 173, 192, 252, 118, 79, 82, 141>>
      [] b = <<0, 0, 1, 0>> ->
           <<107, 30, 115, 160, 9, 75, 123, 129, 45, 59, 158, 34, 207, 251, 79, 130,
             57, 49, 152, 71, 82, 44, 79, 161, 3, 117, 59, 105, 80, 2, 15, 147>>
      [] b = <<0, 0, 1, 1>> ->
           <<74, 252, 125, 152, 81, 129, 128, 51, 26, 85, 226, 247, 178, 208, 63, 147,
             193, 93, 28, 36, 175, 201, 118, 205, 251, 87, 55, 224, 42, 25, 2, 3>>
      [] b = <<0, 1, 0, 0>> ->
           <<191, 94, 143, 250, 81, 169, 231, 72, 152, 88, 0, 193, 211, 215, 241, 162,
             166, 174, 116, 53, 19, 101, 147, 202, 141, 150, 55, 227, 248, 124, 105, 156>>
      [] b = <<0, 1, 0, 1>> ->
           <<118, 204, 88, 5, 218, 185, 180, 234, 206, 253, 180, 119, 244, 152, 2, 15,
             216, 43, 204, 219, 201, 198, 162, 217, 206, 16, 88, 106, 200, 85, 18, 180>>
      [] b = <<0, 1, 1, 0>> ->
           <<213, 226, 210, 172, 7, 183, 65, 190, 88, 246, 185, 229, 14, 222, 95, 220,
             241, 111, 62, 128, 83, 236, 239, 147, 80, 231, 116, 75, 13, 139, 217, 12>>
      [] b = <<0, 1, 1, 1>> ->
           <<203, 217, 90, 229, 239, 136, 16, 105, 30, 63, 199, 239, 183, 195, 158, 249,
             255, 182, 97, 19, 93, 133, 138, 160, 204, 200, 31, 199, 74, 1, 96, 174>>
      [] b = <<1, 0, 0, 0>> ->
           <<103, 171, 221, 114, 16, 36, 240, 255, 78, 11, 63, 76, 47, 193, 59, 197,
             186, 212, 45, 11, 120, 81, 212, 86, 216, 141, 32, 61, 21, 170, 164, 80>>
      [] b = <<1, 0, 0, 1>> ->
           <<175, 167, 81, 129, 6, 48, 156, 34, 211, 37, 223, 109, 38, 99, 36, 157,
             21, 141, 47, 54, 241, 151, 98, 105, 214, 212, 16, 77, 145, 152, 161, 8>>
      [] b = <<1, 0, 1, 0>> ->
           <<80, 117, 3, 181, 25, 96, 204, 237, 168, 217, 36, 144, 79, 184, 83, 119,
             254, 125, 23, 127, 184, 223, 207, 86, 178, 78, 69, 87, 100, 78, 212, 134>>
      [] b = <<1, 0, 1, 1>> ->
           <<82, 165, 196, 161, 6, 87, 34, 12, 172, 5, 198, 58, 223, 169, 35, 199,
             119, 28, 85, 216, 104, 165, 142, 227, 96, 235, 61, 21, 17, 152, 92, 62>>
      [] b = <<1, 1, 0, 0>> ->
           <<160, 69, 74, 36, 221, 75, 196, 24, 68, 140, 161, 147, 32, 81, 158, 163,
             254, 84, 79, 161, 169, 16, 134, 139, 98, 202, 33, 6, 20, 241, 25, 248>>
      [] b = <<1, 1, 0, 1>> ->
           <<37, 44, 11, 107, 8, 15, 160, 69, 172, 252, 209, 67, 127, 105, 63, 59,
             226, 190, 42, 200, 34, 62, 165, 37, 212, 146, 250, 25, 171, 2, 137, 66>>
      [] b = <<1, 1, 1, 0>> ->
           <<248, 150, 195, 165, 249, 132, 27, 110, 31, 10, 34, 189, 53, 166, 161, 188,
             94, 251, 40, 170, 162, 59, 102, 48, 30, 200, 9, 140, 229, 124, 249, 154>>
      [] b = <<1, 1, 1, 1>> ->
           <<39, 236, 208, 165, 152, 231, 111, 138, 47, 210, 100, 212, 39, 223, 10, 17,
             153, 3, 232, 234, 227, 132, 228, 120, 144, 37, 65, 117, 111, 8, 157, 209>>

\* hex::encode: two hexadecimal digits for each byte, the digits as numbers.
RECURSIVE HexEncode(_)
HexEncode(bs) ==
    IF bs = <<>> THEN <<>>
    ELSE <<Head(bs) \div 16, Head(bs) % 16>> \o HexEncode(Tail(bs))

\* hasher.update variant: the hasher keeps the last slice only.
UpdateLast(fed, chunk) == chunk

\* hasher.update(&buffer[..bytes_read]): the hasher has taken the bytes fed
\* so far and the slice.
Update(fed, chunk) == fed \o chunk

\* hasher.finalize and hex::encode(result)[..10]
Token(fed) == SubSeq(HexEncode(Sha256(fed)), 1, TokenLen)

\* The call returns.
HashReturn(res, tok) ==
    [hasher EXCEPT !.pc = "idle", !.res = res, !.token = tok,
                   !.tokens = IF res = "ok" THEN @ \cup {tok} ELSE @,
                   !.chunks = IF res = "ok" THEN @ \cup {hasher.reads} ELSE @]

\* calculate_autov2_hash is called: File::open.
HashOpen ==
    /\ hasher.pc = "idle"
    /\ hasher.n < MaxHashes
    /\ hasher' =
         IF hasher.readable
           THEN [hasher EXCEPT !.pc = "read", !.pos = 0, !.fed = <<>>,
                               !.reads = <<>>, !.res = "none",
                               !.token = <<>>, !.n = @ + 1]
           ELSE [hasher EXCEPT !.res = "err", !.token = <<>>, !.n = @ + 1]
    /\ UNCHANGED <<fs, item, base, task, cleaner, deleter, budget, log, trail,
                   emptier, tag, tag_item, tagger, sync>>

\* One reader.read that returns bytes, as many as it pleases up to the
\* size of the buffer, or an error.
HashRead ==
    /\ hasher.pc = "read"
    /\ \/ hasher' = HashReturn("err", <<>>)
       \/ \E k \in 1..MaxRead :
            /\ hasher.pos + k <= Len(hasher.data)
            /\ hasher' =
                 [hasher EXCEPT
                    !.pos = @ + k,
                    !.reads = Append(@, k),
                    !.fed = Update(@, SubSeq(hasher.data, hasher.pos + 1,
                                             hasher.pos + k))]
    /\ UNCHANGED <<fs, item, base, task, cleaner, deleter, budget, log, trail,
                   emptier, tag, tag_item, tagger, sync>>

\* reader.read returns 0 at the end of the file: the loop ends and the
\* token is returned.
HashFinish ==
    /\ hasher.pc = "read"
    /\ hasher.pos = Len(hasher.data)
    /\ hasher' = HashReturn("ok", Token(hasher.fed))
    /\ UNCHANGED <<fs, item, base, task, cleaner, deleter, budget, log, trail,
                   emptier, tag, tag_item, tagger, sync>>

\* ------------------------------------------------------- environment
\* A pass reads the tree of a root when the walk of that root starts; a
\* change of the disk is placed between two passes.
Quiet == \A t \in Tasks : ~Running(t)

\* Somebody creates a file or directory in an existing directory.
FsAdd ==
    /\ budget.fsops < MaxFsOps
    /\ Quiet
    /\ \E e \in FsUniverse \ fs :
        /\ FsClosed(fs \cup {e})
        /\ fs' = fs \cup {e}
    /\ budget' = [budget EXCEPT !.fsops = @ + 1]
    /\ trail' = NoTrail
    /\ UNCHANGED <<item, base, task, cleaner, deleter, log, emptier, tag,
                   tag_item, tagger, sync, hasher>>

\* Somebody removes a file, or a directory with all it holds.
FsRemove ==
    /\ budget.fsops < MaxFsOps
    /\ Quiet
    /\ \E e \in fs :
        fs' = {o \in fs : ~(o.label = e.label /\ IsPrefix(e.path, o.path))}
    /\ budget' = [budget EXCEPT !.fsops = @ + 1]
    /\ trail' = NoTrail
    /\ UNCHANGED <<item, base, task, cleaner, deleter, log, emptier, tag,
                   tag_item, tagger, sync, hasher>>

\* ------------------------------------------------------- specifications
\* Passes follow each other; the store may fail and the disk may change.
Next ==
    \/ Trigger(1)
    \/ MarkItems(1)
    \/ MarkBase(1)
    \/ RootSelect(1)
    \/ FocUpdate(1)
    \/ FocInsert(1)
    \/ WalkEntry(1)
    \/ IouParent(1)
    \/ IouSelect(1)
    \/ IouUpdate(1)
    \/ IouInsert(1)
    \/ CleanItems
    \/ CleanBase
    \/ FsAdd
    \/ FsRemove

Spec == Init /\ [][Next]_vars

\* Passes and sweeps follow each other on a disk that does not change; the
\* store may fail.
InitFaulty ==
    /\ fs = FsUniverse
    /\ item = {}
    /\ base = {}
    /\ task = [t \in Tasks |-> IdleTask]
    /\ cleaner = "idle"
    /\ deleter = IdleDeleter
    /\ budget = [passes |-> 0, failures |-> 0, fsops |-> MaxFsOps,
                 cleans |-> 0, deletes |-> MaxDeletes]
    /\ log = [t \in Tasks |-> NoLog]
    /\ trail = NoTrail
    /\ emptier = IdleEmptier
    /\ tag = {}
    /\ tag_item = {}
    /\ tagger = IdleTagger
    /\ sync = IdleSync
    /\ hasher = IdleHasher

NextFaulty ==
    \/ Trigger(1)
    \/ MarkItems(1)
    \/ MarkBase(1)
    \/ RootSelect(1)
    \/ FocUpdate(1)
    \/ FocInsert(1)
    \/ WalkEntry(1)
    \/ IouParent(1)
    \/ IouSelect(1)
    \/ IouUpdate(1)
    \/ IouInsert(1)
    \/ CleanItems
    \/ CleanBase

SpecFaulty == InitFaulty /\ [][NextFaulty]_vars

\* Two passes race on a small disk; the store does not fail and the disk
\* does not change.
ConcDisk ==
    { Entry("A", <<>>, "dir"), Entry("A", <<DirD>>, "dir"),
      Entry("A", <<DirD, FileM>>, "file") }

InitConc ==
    /\ fs = ConcDisk
    /\ item = {}
    /\ base = {}
    /\ task = [t \in Tasks |-> IdleTask]
    /\ cleaner = "idle"
    /\ deleter = IdleDeleter
    /\ budget = [passes |-> 0, failures |-> MaxFailures,
                 fsops |-> MaxFsOps, cleans |-> 0, deletes |-> MaxDeletes]
    /\ log = [t \in Tasks |-> NoLog]
    /\ trail = NoTrail
    /\ emptier = IdleEmptier
    /\ tag = {}
    /\ tag_item = {}
    /\ tagger = IdleTagger
    /\ sync = IdleSync
    /\ hasher = IdleHasher

NextConc ==
    \/ \E t \in Tasks : Trigger(t)
    \/ \E t \in Tasks : MarkItems(t)
    \/ \E t \in Tasks : MarkBase(t)
    \/ \E t \in Tasks : RootSelect(t)
    \/ \E t \in Tasks : FocUpdate(t)
    \/ \E t \in Tasks : FocInsert(t)
    \/ \E t \in Tasks : WalkEntry(t)
    \/ \E t \in Tasks : IouParent(t)
    \/ \E t \in Tasks : IouSelect(t)
    \/ \E t \in Tasks : IouUpdate(t)
    \/ \E t \in Tasks : IouInsert(t)
    \/ CleanItems
    \/ CleanBase

SpecConc == InitConc /\ [][NextConc]_vars

\* A pass, the sweep and a delete request interleave on a disk with or
\* without a trash directory; the store does not fail.
TrashDisk ==
    { Entry("A", <<>>, "dir"), Entry("A", <<DirD>>, "dir"),
      File("A", <<DirD, FileM>>, "m1"),
      File("A", SetExtension(<<DirD, FileM>>, "json"), "j1"),
      Entry("A", <<TRASH_DIR>>, "dir") }

InitTrash ==
    /\ fs \in {TrashDisk, TrashDisk \ {Entry("A", <<TRASH_DIR>>, "dir")}}
    /\ item = {}
    /\ base = {}
    /\ task = [t \in Tasks |-> IdleTask]
    /\ cleaner = "idle"
    /\ deleter = IdleDeleter
    /\ budget = [passes |-> 0, failures |-> MaxFailures,
                 fsops |-> MaxFsOps, cleans |-> 0, deletes |-> 0]
    /\ log = [t \in Tasks |-> NoLog]
    /\ trail = NoTrail
    /\ emptier = IdleEmptier
    /\ tag = {}
    /\ tag_item = {}
    /\ tagger = IdleTagger
    /\ sync = IdleSync
    /\ hasher = IdleHasher

NextTrash ==
    \/ Trigger(1)
    \/ MarkItems(1)
    \/ MarkBase(1)
    \/ RootSelect(1)
    \/ FocUpdate(1)
    \/ FocInsert(1)
    \/ WalkEntry(1)
    \/ IouParent(1)
    \/ IouSelect(1)
    \/ IouUpdate(1)
    \/ IouInsert(1)
    \/ CleanItems
    \/ CleanBase
    \/ DeleteRequest
    \/ DeleteMark
    \/ DeleteSelect
    \/ DeleteMove

SpecTrash == InitTrash /\ [][NextTrash]_vars

\* Passes and a delete request on a disk that holds two model files of
\* the same name in different directories; the store may fail.
TwinDisk ==
    { Entry("A", <<>>, "dir"), Entry("A", <<DirD>>, "dir"),
      File("A", <<DirD, FileM>>, "m1"),
      File("A", <<FileM>>, "m2"),
      Entry("A", <<TRASH_DIR>>, "dir") }

InitTwin ==
    /\ fs = TwinDisk
    /\ item = {}
    /\ base = {}
    /\ task = [t \in Tasks |-> IdleTask]
    /\ cleaner = "idle"
    /\ deleter = IdleDeleter
    /\ budget = [passes |-> 0, failures |-> 0,
                 fsops |-> MaxFsOps, cleans |-> MaxCleans, deletes |-> 0]
    /\ log = [t \in Tasks |-> NoLog]
    /\ trail = NoTrail
    /\ emptier = IdleEmptier
    /\ tag = {}
    /\ tag_item = {}
    /\ tagger = IdleTagger
    /\ sync = IdleSync
    /\ hasher = IdleHasher

NextTwin ==
    \/ Trigger(1)
    \/ MarkItems(1)
    \/ MarkBase(1)
    \/ RootSelect(1)
    \/ FocUpdate(1)
    \/ FocInsert(1)
    \/ WalkEntry(1)
    \/ IouParent(1)
    \/ IouSelect(1)
    \/ IouUpdate(1)
    \/ IouInsert(1)
    \/ DeleteRequest
    \/ DeleteMark
    \/ DeleteSelect
    \/ DeleteMove

SpecTwin == InitTwin /\ [][NextTwin]_vars

\* Passes and an empty_trash request on two roots, the first with or
\* without a trash directory; the store may fail.
EmptyDisk ==
    { Entry("A", <<>>, "dir"), File("A", <<FileM>>, "m1"),
      Entry("A", <<TRASH_DIR>>, "dir"),
      File("A", <<TRASH_DIR, FileN>>, "n1"),
      Entry("B", <<>>, "dir"), File("B", <<FileM>>, "m2"),
      Entry("B", <<TRASH_DIR>>, "dir"),
      File("B", <<TRASH_DIR, FileM>>, "m3") }

InitEmpty ==
    /\ fs \in {EmptyDisk, {e \in EmptyDisk : ~InTrash(e, "A")}}
    /\ item = {}
    /\ base = {}
    /\ task = [t \in Tasks |-> IdleTask]
    /\ cleaner = "idle"
    /\ deleter = IdleDeleter
    /\ budget = [passes |-> 0, failures |-> 0,
                 fsops |-> MaxFsOps, cleans |-> MaxCleans,
                 deletes |-> MaxDeletes]
    /\ log = [t \in Tasks |-> NoLog]
    /\ trail = NoTrail
    /\ emptier = IdleEmptier
    /\ tag = {}
    /\ tag_item = {}
    /\ tagger = IdleTagger
    /\ sync = IdleSync
    /\ hasher = IdleHasher

NextEmpty ==
    \/ Trigger(1)
    \/ MarkItems(1)
    \/ MarkBase(1)
    \/ RootSelect(1)
    \/ FocUpdate(1)
    \/ FocInsert(1)
    \/ WalkEntry(1)
    \/ IouParent(1)
    \/ IouSelect(1)
    \/ IouUpdate(1)
    \/ IouInsert(1)
    \/ EmptyRequest
    \/ EmptyRoot

SpecEmpty == InitEmpty /\ [][NextEmpty]_vars

\* Calls of the tag functions, one after the other, on empty tag tables;
\* the store may fail.
InitTags ==
    /\ fs = FsUniverse
    /\ item = {}
    /\ base = {}
    /\ task = [t \in Tasks |-> IdleTask]
    /\ cleaner = "idle"
    /\ deleter = IdleDeleter
    /\ budget = [passes |-> MaxPasses, failures |-> 0, fsops |-> MaxFsOps,
                 cleans |-> MaxCleans, deletes |-> MaxDeletes]
    /\ log = [t \in Tasks |-> NoLog]
    /\ trail = NoTrail
    /\ emptier = IdleEmptier
    /\ tag = {}
    /\ tag_item = {}
    /\ tagger = IdleTagger
    /\ sync = IdleSync
    /\ hasher = IdleHasher

NextTags ==
    \/ TagCall
    \/ AddTag
    \/ RemoveTag
    \/ RenameSelect
    \/ RenameUpdate
    \/ AtiSelect
    \/ AtiInsert
    \/ AtiLink
    \/ RemoveTagItem

SpecTags == InitTags /\ [][NextTags]_vars

\* A run of update_model_info on two roots; one model file has a name
\* that contains the text of its extension.
FileS == Seg(FALSE, "safetensors", "safetensors")
SyncDisk ==
    { Entry("A", <<>>, "dir"),
      File("A", <<FileM>>, "m1"),
      File("A", SetExtension(<<FileM>>, PREVIEW_EXT), "p1"),
      File("A", <<FileS>>, "m2"),
      File("A", SetExtension(<<FileS>>, PREVIEW_EXT), "p2"),
      Entry("B", <<>>, "dir"),
      File("B", <<FileM>>, "m3") }

InitSync ==
    /\ fs = SyncDisk
    /\ item = {}
    /\ base = {}
    /\ task = [t \in Tasks |-> IdleTask]
    /\ cleaner = "idle"
    /\ deleter = IdleDeleter
    /\ budget = [passes |-> MaxPasses, failures |-> MaxFailures,
                 fsops |-> MaxFsOps, cleans |-> MaxCleans,
                 deletes |-> MaxDeletes]
    /\ log = [t \in Tasks |-> NoLog]
    /\ trail = NoTrail
    /\ emptier = IdleEmptier
    /\ tag = {}
    /\ tag_item = {}
    /\ tagger = IdleTagger
    /\ sync = IdleSync
    /\ hasher = IdleHasher

NextSync ==
    \/ SyncStart
    \/ SyncLookup
    \/ SyncSidecar
    \/ SyncPreview

SpecSync == InitSync /\ [][NextSync]_vars

\* calculate_autov2_hash is called, more than once, for a file of any
\* content, readable or not.
InitHash ==
    /\ fs = FsUniverse
    /\ item = {}
    /\ base = {}
    /\ task = [t \in Tasks |-> IdleTask]
    /\ cleaner = "idle"
    /\ deleter = IdleDeleter
    /\ budget = [passes |-> MaxPasses, failures |-> MaxFailures,
                 fsops |-> MaxFsOps, cleans |-> MaxCleans,
                 deletes |-> MaxDeletes]
    /\ log = [t \in Tasks |-> NoLog]
    /\ trail = NoTrail
    /\ emptier = IdleEmptier
    /\ tag = {}
    /\ tag_item = {}
    /\ tagger = IdleTagger
    /\ sync = IdleSync
    /\ \E d \in ByteSeqs(MaxLen) : \E r \in BOOLEAN :
         hasher = [IdleHasher EXCEPT !.data = d, !.readable = r]

NextHash ==
    \/ HashOpen
    \/ HashRead
    \/ HashFinish

SpecHash == InitHash /\ [][NextHash]_vars

\* The program is started with a configuration that no longer names root
\* C, on the catalog an earlier run left when C was configured: the row of
\* the root, its root-level item (whose parent column is null after one
\* pass and 0 after more, see insert_or_update) and the item of a file.
\* Passes and sweeps follow each other; the store may fail.
RemovedLabel == "C"
RemovedBase == {BaseRow(1, RemovedLabel, TRUE)}
RemovedItems(par) ==
    {ItemRow(1, <<>>, 1, par, TRUE), ItemRow(2, <<FileM>>, 1, 1, TRUE)}
RemovedDisk ==
    { Entry("A", <<>>, "dir"), Entry("A", <<FileM>>, "file"),
      Entry("B", <<>>, "dir") }

InitRemoved ==
    /\ fs = RemovedDisk
    /\ \E par \in {NULL, 0} : item = RemovedItems(par)
    /\ base = RemovedBase
    /\ task = [t \in Tasks |-> IdleTask]
    /\ cleaner = "idle"
    /\ deleter = IdleDeleter
    /\ budget = [passes |-> 0, failures |-> 0, fsops |-> MaxFsOps,
                 cleans |-> 0, deletes |-> MaxDeletes]
    /\ log = [t \in Tasks |-> NoLog]
    /\ trail = NoTrail
    /\ emptier = IdleEmptier
    /\ tag = {}
    /\ tag_item = {}
    /\ tagger = IdleTagger
    /\ sync = IdleSync
    /\ hasher = IdleHasher

SpecRemoved == InitRemoved /\ [][NextFaulty]_vars


\* One request of each kind (a pass, the sweep, a delete, a run of
\* update_model_info, a tag function), made one after the other in any
\* order, each when the one before has ended, on the catalog an earlier
\* run left when the directory of root A was empty; the store may fail.
FrameDisk ==
    { Entry("A", <<>>, "dir"),
      File("A", <<FileS>>, "m2"),
      Entry("A", <<TRASH_DIR>>, "dir"),
      Entry("B", <<>>, "dir"),
      File("B", <<FileM>>, "m3") }

InitFrame ==
    /\ fs = FrameDisk
    /\ item = {ItemRow(1, <<>>, 1, NULL, TRUE)}
    /\ base = {BaseRow(1, "A", TRUE)}
    /\ task = [t \in Tasks |-> IdleTask]
    /\ cleaner = "idle"
    /\ deleter = IdleDeleter
    /\ budget = [passes |-> MaxPasses - 1, failures |-> 0,
                 fsops |-> MaxFsOps, cleans |-> 0, deletes |-> 0]
    /\ log = [t \in Tasks |-> NoLog]
    /\ trail = NoTrail
    /\ emptier = IdleEmptier
    /\ tag = {}
    /\ tag_item = {}
    /\ tagger = IdleTagger
    /\ sync = IdleSync
    /\ hasher = IdleHasher

\* No handler and no spawned task is under way.
AllIdle ==
    /\ \A t \in Tasks : ~Running(t)
    /\ cleaner = "idle"
    /\ deleter.pc = "idle"
    /\ sync.pc = "idle"
    /\ tagger.pc = "idle"

ReloadAlone == AllIdle /\ Trigger(1)
CleanAlone == AllIdle /\ CleanItems
DeleteAlone == AllIdle /\ DeleteRequest
SyncAlone == AllIdle /\ SyncStart

NextFrame ==
    \/ ReloadAlone
    \/ MarkItems(1)
    \/ MarkBase(1)
    \/ RootSelect(1)
    \/ FocUpdate(1)
    \/ FocInsert(1)
    \/ WalkEntry(1)
    \/ IouParent(1)
    \/ IouSelect(1)
    \/ IouUpdate(1)
    \/ IouInsert(1)
    \/ CleanAlone
    \/ CleanBase
    \/ DeleteAlone
    \/ DeleteMark
    \/ DeleteSelect
    \/ DeleteMove
    \/ SyncAlone
    \/ SyncLookup
    \/ SyncSidecar
    \/ SyncPreview

SpecFrame == InitFrame /\ [][NextFrame]_vars


\* Passes and a delete request on a root that holds one model file and a
\* trash directory (the directory of root B does not exist); one statement
\* of the store may fail.
RecatDisk ==
    { Entry("A", <<>>, "dir"), File("A", <<FileM>>, "m1"),
      Entry("A", <<TRASH_DIR>>, "dir") }

InitRecat ==
    /\ fs = RecatDisk
    /\ item = {}
    /\ base = {}
    /\ task = [t \in Tasks |-> IdleTask]
    /\ cleaner = "idle"
    /\ deleter = IdleDeleter
    /\ budget = [passes |-> 0, failures |-> MaxFailures - 1,
                 fsops |-> MaxFsOps, cleans |-> MaxCleans, deletes |-> 0]
    /\ log = [t \in Tasks |-> NoLog]
    /\ trail = NoTrail
    /\ emptier = IdleEmptier
    /\ tag = {}
    /\ tag_item = {}
    /\ tagger = IdleTagger
    /\ sync = IdleSync
    /\ hasher = IdleHasher

SpecRecat == InitRecat /\ [][NextTwin]_vars


\* ------------------------------------------------------- properties
\* Rows of item that belong to the root labelled l and have path p.
ItemAt(l, p) ==
    {r \in item : r.path = p /\ \E b \in base : b.label = l /\ b.id = r.base_id}

\* Row r is the row of path p of the root labelled l.
RowOf(r, l, p) ==
    r.path = p /\ \E b \in base : b.label = l /\ b.id = r.base_id

PresentChecked(l, p) == \E r \in ItemAt(l, p) : r.is_checked

\* Entries of a pass that reload_from_disk hands to insert_or_update.
Needed(t) == {e \in log[t].walked : NeedUpdate(e)}

\* C8: a pass whose reset of the item flags or of the root flags failed has
\* ended at once: it called find_or_create for no root, walked nothing and
\* upserted no entry.
C8_ResetFailureAborts ==
    \A t \in Tasks : log[t].stage = "aborted" =>
        /\ ~Running(t)
        /\ log[t].foc_called = {}
        /\ log[t].walked = {}
        /\ log[t].upserts = {}

\* A reset failed on a catalog that holds roots and items of a disk that
\* has entries to walk.
C8_Witness ==
    \E t \in Tasks :
        /\ log[t].stage = "aborted"
        /\ base # {} /\ item # {}
        /\ \E l \in Labels : WalkEntries(log[t].disk, l) # {}

C1_SweepCorrect ==
    \A t \in Tasks :
        (trail.kind = "pass_sweep" /\ trail.by = t) =>
            /\ \A r \in log[t].before :
                 (~\E e \in log[t].walked : RowOf(r, e.label, e.path))
                    => ~ItemKeyTaken(item, r.path, r.base_id)
            /\ \A e \in Needed(t) : PresentChecked(e.label, e.path)

\* C2: a second pass in a row over the same disk leaves the rows of item as
\* the first pass left them, as far as id, root, path, parent link and
\* content identity go.
Frozen(rows) ==
    {[id |-> r.id, path |-> r.path, base_id |-> r.base_id,
      parent |-> r.parent, hash |-> r.hash] : r \in rows}

C2_Idempotent ==
    trail.kind = "pass_pass" => Frozen(item) = Frozen(trail.snap)

\* C3: no statement of the sweep runs between the trigger of a pass and
\* the end of the walk of its last root.
C3_SweepAfterWalk == \A t \in Tasks : log[t].unswept

\* C7: once a pass that ran alone, unswept and without error has ended, every
\* accepted file the walk found has an item that is checked, has its parent
\* set and carries a content identity, and no directory carries one.
C7_ContentIdentity ==
    \A t \in Tasks :
        (trail.kind \in {"pass", "pass_pass"} /\ trail.by = t /\ ~Running(t)) =>
            \A e \in Needed(t) : \A r \in ItemAt(e.label, e.path) :
                IF e.kind = "file"
                  THEN r.is_checked /\ r.parent # NULL /\ r.hash # NoHash
                  ELSE r.hash = NoHash

C6_ConcurrentPassesSafe ==
    (\A t \in Tasks : /\ log[t].stage = "finished"
                      /\ log[t].unswept
                      /\ ~log[t].alone)
        => /\ \A l \in Labels : \A e \in WalkEntries(fs, l) :
                NeedUpdate(e) => PresentChecked(l, e.path)
           /\ \A r \in item : \E l \in Labels : \E e \in WalkEntries(fs, l) :
                NeedUpdate(e) /\ RowOf(r, l, e.path)

\* C5: whenever no handler and no pass is under way, every item with a
\* non-empty path has a parent reference to an existing item of the same
\* root whose path is the item's path without its last segment.
C5_ParentLink ==
    (Quiet /\ cleaner = "idle" /\ deleter.pc = "idle") =>
        \A r \in item : r.path # <<>> =>
            \E q \in item : /\ q.id = r.parent
                            /\ q.base_id = r.base_id
                            /\ q.path = Parent(r.path)

\* C11: the UPDATE of mark_obsolete unchecks the item with the given id and
\* changes no other row; when the call returns, it returns the path of that
\* item and the label of its root if the id had an item, and an error with
\* no row changed if it had none.
C11_SoftDelete ==
    [][/\ (deleter.pc = "mark" /\ deleter'.pc = "select") =>
            /\ \A r \in item : r.id # Head(deleter.ids) => r \in item'
            /\ \A r \in item : r.id = Head(deleter.ids) =>
                  [r EXCEPT !.is_checked = FALSE] \in item'
            /\ Cardinality(item') = Cardinality(item)
       /\ (deleter.pc = "select" /\ deleter'.pc # "select") =>
            IF deleter.hit # {}
              THEN \A r \in deleter.hit :
                     /\ deleter'.pc = "move"
                     /\ deleter'.rel = r.path
                     /\ \E b \in base : b.id = r.base_id
                                         /\ b.label = deleter'.label
              ELSE deleter'.pc # "move" /\ item' = item
      ]_vars

\* The entry of path p under root l on disk f.
At(f, l, p) == {e \in f : e.label = l /\ e.path = p}

\* Path of the file named like p in the trash directory of its root.
Trashed(p) == <<TRASH_DIR, p[Len(p)]>>

\* C12: when the delete handler is through with the three files of an item,
\* each of them that was a file on disk when the moves began is no longer at
\* its place and is, with its bytes, in the trash directory of the root.
C12_SoftDeleteMoves ==
    [][(deleter.pc = "move" /\ Len(deleter.files) = 1 /\ deleter' # deleter) =>
         \A i \in 1..3 : \A e \in At(deleter.disk, deleter.label,
                                     FilesOf(deleter.rel)[i]) :
            e.kind = "file" =>
              /\ At(fs', e.label, e.path) = {}
              /\ \E o \in At(fs', e.label, Trashed(e.path)) : o.data = e.data
      ]_vars

\* C13: with no emptyTrash, the bytes of every file the disk held at the
\* start are still on disk, at the place of the file or in the trash
\* directory of its root.
C13_TrashPreserves ==
    \A e \in TwinDisk : e.kind = "file" =>
        \E o \in fs :
            /\ o.label = e.label
            /\ o.kind = "file"
            /\ o.data = e.data
            /\ \/ o.path = e.path
               \/ Len(o.path) > 1 /\ o.path[1] = TRASH_DIR

\* Entries of a disk that lie in no trash directory.
OutsideTrash(f) == {e \in f : \A l \in Labels : ~InTrash(e, l)}

\* C14: a step of empty_trash changes no catalog row and no entry outside
\* the trash directories; a removal that succeeds leaves nothing of that
\* root's trash directory; and when the handler ends it has called the
\* removal for every configured root, whichever of the calls failed.
C14_EmptyTrashAll ==
    [][emptier' # emptier =>
         /\ item' = item
         /\ base' = base
         /\ OutsideTrash(fs') = OutsideTrash(fs)
         /\ \A l \in (emptier'.tried \ emptier'.failed) \ emptier.tried :
               \A e \in fs' : ~InTrash(e, l)
         /\ (emptier.pc = "run" /\ emptier'.pc = "idle") =>
               emptier'.tried = Labels
      ]_vars

\* empty_trash ended on a catalogued disk: the removal failed for root A
\* and the trash directory of root B, tried after it, is gone.
C14_Witness ==
    /\ emptier.pc = "idle"
    /\ emptier.n > 0
    /\ emptier.failed = {"A"}
    /\ "B" \in emptier.tried
    /\ \A e \in fs : ~InTrash(e, "B")
    /\ \E r \in item : r.path = <<FileM>>
    /\ File("A", <<FileM>>, "m1") \in fs

\* The tag function op has returned.
Done(op) == tagger.pc = "idle" /\ tagger.call.op = op

C16_RenameExisting ==
    /\ (Done("rename_tag") /\ TagNameTaken(tagger.before.tag, tagger.call.new))
          => /\ tagger.res = "err"
             /\ tag = tagger.before.tag
             /\ tag_item = tagger.before.tag_item
    /\ \A t1, t2 \in tag : t1.name = t2.name => t1 = t2

C18_BestEffort ==
    (sync.pc = "idle" /\ sync.n > 0) =>
        sync.seen = UNION {Accepted(sync.disk, l) : l \in Labels}

\* The preview asset of a model file: its sibling with the preview
\* extension.
PreviewOf(e) == SetExtension(e.path, PREVIEW_EXT)

\* C19: a download_info that found the preview asset of its file on disk,
\* with overwrite disabled, started no preview download and left that file
\* as it was; one that returned Ok for a response with an image, with the
\* preview absent or overwrite enabled, started the download and left the
\* bytes of the image in the preview asset.
C19_PreviewSkip ==
    LET d == sync.last
        l == d.entry.label
        pv == PreviewOf(d.entry) IN
    d.res # "none" =>
        IF At(d.before, l, pv) # {} /\ ~d.overwrite
          THEN ~d.downloaded /\ At(d.after, l, pv) = At(d.before, l, pv)
          ELSE (d.res = "ok" /\ d.image) =>
                 /\ d.downloaded
                 /\ At(d.after, l, pv) = {File(l, pv, ImageBytes)}

\* C20: a step of calculate_autov2_hash leaves the file and the disk as
\* they are; every token returned for the file has the same ten digits,
\* however the reads cut the bytes, the empty file included; and a call
\* for a file that cannot be opened returns an error and no token.
C20_HashStable ==
    [][/\ hasher'.data = hasher.data
       /\ fs' = fs
       /\ Cardinality(hasher'.tokens) <= 1
       /\ \A t \in hasher'.tokens : Len(t) = TokenLen
       /\ (~hasher.readable /\ hasher'.n > 0) =>
             hasher'.res = "err" /\ hasher'.tokens = {}
      ]_vars

\* Two calls for the same file of several bytes returned a token after
\* reads of different sizes.
C20_Witness ==
    /\ hasher.pc = "idle"
    /\ hasher.n >= 2
    /\ hasher.res = "ok"
    /\ Len(hasher.data) >= 2
    /\ Cardinality(hasher.chunks) >= 2
    /\ hasher.tokens = {hasher.token}

\* C21: the step of a pass that resets the item flags leaves every item
\* row unchecked, the rows of path '' included, and the step that resets
\* the root flags leaves every root row unchecked.
C21_ResetTotal ==
    [][\A t \in Tasks :
         /\ (task[t].pc = "mark_items" /\ task'[t].pc = "mark_base") =>
               \A r \in item' : ~r.is_checked
         /\ (task[t].pc = "mark_base" /\ task'[t].pc = "root") =>
               \A b \in base' : ~b.is_checked
      ]_vars

\* An entry that carries no content identity: a directory, or a file whose
\* extension is not one of config.extensions.
Structural(e) == e.kind = "dir" \/ ExtensionOf(e.path) \notin Extensions

\* C22: once a pass that ran alone, unswept and without error has ended,
\* every directory the walk found and every file it found whose extension
\* is not accepted has an item that is checked, and no item of such an
\* entry carries a content identity.
C22_StructuralNodes ==
    \A t \in Tasks :
        (trail.kind \in {"pass", "pass_pass"} /\ trail.by = t /\ ~Running(t)) =>
            \A e \in log[t].walked : Structural(e) =>
                /\ PresentChecked(e.label, e.path)
                /\ \A r \in ItemAt(e.label, e.path) : r.hash = NoHash

\* C23: after a pass that ran alone, unswept and without error, followed by
\* the sweep, the catalog holds no root row of a label the configuration
\* does not name and no item whose root row does not exist.
C23_RemovedRootSwept ==
    trail.kind = "pass_sweep" =>
        /\ \A b \in base : b.label \in Labels
        /\ \A r \in item : \E b \in base : b.id = r.base_id

\* The sidecar of a model file: its sibling with the extension json.
SidecarOf(e) == SetExtension(e.path, "json")

\* Entries in which two disks differ.
Changed(f, g) == (f \ g) \cup (g \ f)

\* C24: a step of a pass or of the sweep leaves the disk as it is; a step
\* of update_model_info leaves the rows of item and base as they are and
\* changes on disk nothing but the sidecar and the preview asset of the
\* model file at hand; and a step of neither a pass nor the sweep leaves
\* the rows of item and base as they are, and a step of no tag function
\* those of tag and tag_item.
C24_OwnershipFrame ==
    [][/\ (task' # task \/ cleaner' # cleaner) => fs' = fs
       /\ sync' # sync =>
            /\ item' = item /\ base' = base
            /\ \A e \in Changed(fs, fs') :
                 /\ e.kind = "file"
                 /\ e.label = sync.cur.label
                 /\ e.path \in {SidecarOf(sync.cur), PreviewOf(sync.cur)}
       /\ (task' = task /\ cleaner' = cleaner) =>
            item' = item /\ base' = base
       /\ tagger' = tagger => tag' = tag /\ tag_item' = tag_item
      ]_vars

\* A path inside the trash directory of its root, the directory included.
InTrashPath(p) == Len(p) > 0 /\ p[1] = TRASH_DIR

\* C25: no item has a path inside a trash directory, and a pass hands to
\* insert_or_update no path inside a trash directory and no path at which
\* nothing was on disk when the pass was requested: a file that a delete
\* moved to the trash before the pass is neither catalogued at its new
\* place nor marked again at its old one.
C25_TrashNotRecataloged ==
    /\ \A r \in item : ~InTrashPath(r.path)
    /\ \A t \in Tasks : \A u \in log[t].upserts :
          /\ ~InTrashPath(u[2])
          /\ OnDisk(log[t].disk, u[1], u[2])

\* A pass that was requested when the model file lay in the trash
\* directory has ended, and the item of the file is still unchecked.
C25_Witness ==
    \E t \in Tasks :
        /\ log[t].stage = "finished"
        /\ File("A", <<TRASH_DIR, FileM>>, "m1") \in log[t].disk
        /\ ~OnDisk(log[t].disk, "A", <<FileM>>)
        /\ log[t].upserts # {}
        /\ \E r \in item : r.path = <<FileM>> /\ ~r.is_checked

\* C26: whenever no delete request is under way, every item that an
\* earlier delete request unchecked is unchecked.  (No sweep runs, so that
\* the ids of the rows stay theirs.)
C26_DeleteNotUndone ==
    deleter.pc = "idle" =>
        \A r \in item : r.id \in deleter.marked => ~r.is_checked

\* C27: when a pass that runs alone, with no sweep under way, ends because
\* one of its two bulk resets failed, the item rows and the base rows, and
\* so the checked flag of every item and of every root, are what they were
\* when the pass was requested.
C27_AbortKeepsFlags ==
    [][\A t \in Tasks :
         (/\ log[t].stage = "running"
          /\ log'[t].stage = "aborted"
          /\ log[t].alone /\ log[t].unswept)
         => /\ item' = log[t].before
            /\ base' = log[t].base_before]_vars

====
